---- MODULE Spec2Model ----
(***************************************************************************)
(* json2ts: inference of TypeScript declarations from JSON-like values.    *)
(*                                                                         *)
(* The module models ConverterBase.convert (validate the root name, parse  *)
(* the input, run a converter, catch its exceptions) with the two          *)
(* converters behind it: JsonToTsConverter (one named declaration per      *)
(* nested record) and JsonToFlattenedTsConverter (nested records inlined). *)
(* The recursive walks are run on an explicit call stack, one frame per    *)
(* activation of generateInterface / generateObjectBody. The stack has the *)
(* engine's limit: a call beyond it raises a RangeError, which the catch   *)
(* of convert turns into a null return like every other exception.        *)
(*                                                                         *)
(* Values are records of one shape: kind, text (the value as a property    *)
(* key, as typeMap[value] coerces it), ref (identity of a record on the    *)
(* heap) and elems (the elements of an array). Records live on a heap and  *)
(* are compared by identity, so that a value graph may share records and   *)
(* may be cyclic. Names (property keys, declaration names) are sequences   *)
(* of one-character strings.                                               *)
(***************************************************************************)
EXTENDS Integers, Sequences, FiniteSets, TLC

VARIABLES
    strategy,        \* which converter class convert was called on
    jsonData,        \* first argument of convert
    interfaceName,   \* second argument of convert (the root name)
    exportType,      \* third argument of convert
    options,         \* fourth argument of convert (ConvertOptions)
    heap,            \* the records of the value graph, by identity
    pc,              \* position inside ConverterBase.convert
    parseResult,     \* result of ConverterUtils.jsonParse
    interfaces,      \* JsonToTsConverter.interfaces (insertion-ordered Map)
    visitedObjects,  \* the converter's WeakSet of entered records
    stack,           \* call stack of the recursive walk
    ret,             \* value returned by the last generateObjectBody call
    logged,          \* what convert wrote with console.error
    result,          \* what convert returned or threw
    utilArg,         \* the text handed to a ConverterUtils naming function
    utilRet,         \* the text that function returned
    argv,            \* the command line as yargs parsed it
    env,             \* what the command-line tool finds: files and stdin
    typescriptCode,  \* the text the command-line tool got from convert
    exitCode,        \* the exit code of the command-line tool
    previous         \* what the call of convert before this one returned

vars == <<strategy, jsonData, interfaceName, exportType, options, heap, pc,
          parseResult, interfaces, visitedObjects, stack, ret, logged, result,
          utilArg, utilRet, argv, env, typescriptCode, exitCode, previous>>

inputs == <<strategy, jsonData, interfaceName, exportType, options>>

naming == <<utilArg, utilRet>>

cli == <<argv, env, typescriptCode, exitCode>>

\* the command-line tool is not running
NoCommandLine ==
    /\ argv = [own |-> {}]
    /\ env = [stdin |-> "tty"]
    /\ typescriptCode = ""
    /\ exitCode = 0

-----------------------------------------------------------------------------
(* Bounds of the model                                                     *)

\* number of records in an input graph
NumObjs == 2

\* longest input text, in lexical chunks
MaxTextLen == 3

\* longest array enumerated as a property value
MaxArrayLen == 2

\* the call stack the engine allows: a call beyond it raises a RangeError
MaxDepth == 6

-----------------------------------------------------------------------------
(* Characters and names                                                    *)

LowerSeq == <<"a","b","c","d","e","f","g","h","i","j","k","l","m",
              "n","o","p","q","r","s","t","u","v","w","x","y","z">>

UpperSeq == <<"A","B","C","D","E","F","G","H","I","J","K","L","M",
              "N","O","P","Q","R","S","T","U","V","W","X","Y","Z">>

Range(s) == { s[i] : i \in DOMAIN s }

Lower == Range(LowerSeq)

Upper == Range(UpperSeq)

Digit == {"0","1","2","3","4","5","6","7","8","9"}

\* the character class [a-zA-Z0-9_$]
WordChar == Lower \cup Upper \cup Digit \cup {"_", "$"}

\* String.prototype.toUpperCase on one character
ToUpperCase(c) ==
    IF c \in Lower
    THEN UpperSeq[CHOOSE i \in DOMAIN LowerSeq : LowerSeq[i] = c]
    ELSE c

SelectChars(s, keep) == SelectSeq(s, LAMBDA c : c \in keep)

\* JsonToTsConverter.capitalize: drop what is not [a-zA-Z0-9_$], upper-case
\* the first character that is left
capitalize(str) ==
    IF str = <<>> THEN <<>>
    ELSE LET sanitizedKey == SelectChars(str, WordChar)
         IN  IF sanitizedKey = <<>> THEN <<>>
             ELSE <<ToUpperCase(Head(sanitizedKey))>> \o Tail(sanitizedKey)

TS_RESERVED_WORDS == {
    <<"b","r","e","a","k">>, <<"c","a","s","e">>, <<"c","a","t","c","h">>,
    <<"c","l","a","s","s">>, <<"c","o","n","s","t">>, <<"c","o","n","t","i","n","u","e">>,
    <<"d","e","b","u","g","g","e","r">>, <<"d","e","f","a","u","l","t">>,
    <<"d","e","l","e","t","e">>, <<"d","o">>, <<"e","l","s","e">>,
    <<"e","x","p","o","r","t">>, <<"e","x","t","e","n","d","s">>, <<"f","a","l","s","e">>,
    <<"f","i","n","a","l","l","y">>, <<"f","o","r">>, <<"f","u","n","c","t","i","o","n">>,
    <<"i","f">>, <<"i","m","p","o","r","t">>, <<"i","n">>,
    <<"i","n","s","t","a","n","c","e","o","f">>, <<"l","e","t">>, <<"n","e","w">>,
    <<"n","u","l","l">>, <<"r","e","t","u","r","n">>, <<"s","u","p","e","r">>,
    <<"s","w","i","t","c","h">>, <<"t","h","i","s">>, <<"t","h","r","o","w">>,
    <<"t","r","u","e">>, <<"t","r","y">>, <<"t","y","p","e","o","f">>, <<"v","a","r">>,
    <<"v","o","i","d">>, <<"w","h","i","l","e">>, <<"w","i","t","h">>, <<"a","s">>,
    <<"i","m","p","l","e","m","e","n","t","s">>, <<"i","n","t","e","r","f","a","c","e">>,
    <<"p","a","c","k","a","g","e">>, <<"p","r","i","v","a","t","e">>,
    <<"p","r","o","t","e","c","t","e","d">>, <<"p","u","b","l","i","c">>,
    <<"s","t","a","t","i","c">>, <<"y","i","e","l","d">>,
    <<"a","b","s","t","r","a","c","t">>, <<"a","s","y","n","c">>, <<"a","w","a","i","t">>,
    <<"c","o","n","s","t","r","u","c","t","o","r">>, <<"d","e","c","l","a","r","e">>,
    <<"g","e","t">>, <<"m","o","d","u","l","e">>, <<"n","a","m","e","s","p","a","c","e">>,
    <<"r","e","q","u","i","r","e">>, <<"s","e","t">>, <<"t","y","p","e">>,
    <<"f","r","o","m">>, <<"o","f">>, <<"k","e","y","o","f">>,
    <<"r","e","a","d","o","n","l","y">>, <<"u","n","i","q","u","e">>,
    <<"u","n","k","n","o","w","n">>, <<"n","e","v","e","r">>, <<"a","n","y">>,
    <<"b","o","o","l","e","a","n">>, <<"n","u","m","b","e","r">>,
    <<"o","b","j","e","c","t">>, <<"s","t","r","i","n","g">>, <<"s","y","m","b","o","l">>,
    <<"a","s","s","e","r","t","s">>, <<"i","s">>, <<"i","n","f","e","r">>, <<"o","u","t">>,
    <<"s","a","t","i","s","f","i","e","s">>
  }

\* ConverterUtils.checkIdentifier: the cases of its switch, in order
checkIdentifier(name) ==
    IF name = <<>> THEN FALSE
    ELSE LET startOk == Head(name) \in (Lower \cup Upper \cup {"_", "$"})
             charsOk == \A i \in DOMAIN name : name[i] \in WordChar
             onlyMarks == \A i \in DOMAIN name : name[i] \in {"_", "$"}
         IN  ~ \/ name \in TS_RESERVED_WORDS
               \/ ~startOk
               \/ ~charsOk
               \/ (~(startOk /\ charsOk) \/ onlyMarks)
               \/ Head(name) \in Digit

-----------------------------------------------------------------------------
(* Values                                                                  *)

Val(k, t, r, e) == [kind |-> k, text |-> t, ref |-> r, elems |-> e]

VNull == Val("null", "null", 0, <<>>)

VUndefined == Val("undefined", "undefined", 0, <<>>)

VString(s) == Val("string", s, 0, <<>>)

VNumber(s) == Val("number", s, 0, <<>>)

VBoolean(s) == Val("boolean", s, 0, <<>>)

\* a plain record, by identity
VObject(id) == Val("object", "", id, <<>>)

\* an object made by new C(), by identity, with the name of its constructor
\* ("" for a class without a name)
VInstance(constructorName, id) == Val("instance", constructorName, id, <<>>)

VArray(es) == Val("array", "", 0, es)

\* the array a made by a.push(a): its one element is the array itself
VSelfArray == Val("selfarray", "", 0, <<>>)

\* a Set, its members in insertion order
VSet(es) == Val("set", "", 0, es)

\* the Set s made by s.add(s): its one member is the set itself
VSelfSet == Val("selfset", "", 0, <<>>)

\* a Map, by the key and the value of its first entry (no other entry is
\* ever read); no element for the empty Map
VMap(es) == Val("map", "", 0, es)

\* an accessor property whose getter throws when the walk reads it
VThrows == Val("throws", "", 0, <<>>)

\* the typeof operator
TypeOf(v) ==
    IF v.kind \in {"null", "object", "instance", "array", "selfarray", "set",
                   "selfset", "map"}
    THEN "object"
    ELSE v.kind

\* Array.isArray
IsArray(v) == v.kind \in {"array", "selfarray"}

\* the elements of an array, the members of a Set
Elems(v) == IF v.kind \in {"selfarray", "selfset"} THEN <<v>> ELSE v.elems

IsPlainRecord(v) == v.kind = "object"

\* an object with fields of its own: a plain record or a class instance
HasOwnFields(v) == v.kind \in {"object", "instance"}

\* value?.constructor?.name
ConstructorName(v) == IF v.kind = "instance" THEN v.text ELSE "Object"

-----------------------------------------------------------------------------
(* Type descriptors: the type texts the converters build, kept structured  *)

Ty(t, s, id, sub) == [t |-> t, s |-> s, id |-> id, sub |-> sub]

\* a type written as a bare word: number, null, unknown, any, ...
TPrim(s) == Ty("prim", s, <<>>, <<>>)

\* the name of a generated declaration
TRef(name) == Ty("ref", "", name, <<>>)

\* T[]
TArrayOf(ty) == Ty("array", "", <<>>, <<ty>>)

\* [T1, T2, ...]
TTuple(tys) == Ty("tuple", "", <<>>, tys)

\* { fields } inlined by the flattened converter
TBody(fields) == Ty("body", "", <<>>, fields)

\* one "name: type;" line of a body
TField(key, ty) == Ty("field", "", key, <<ty>>)

\* Set<T>, Map<K, V>
TGeneric(name, tys) == Ty("generic", name, <<>>, tys)

\* detectJsTypeFromObject found no type: the value is a plain record
TNone == Ty("none", "", <<>>, <<>>)

-----------------------------------------------------------------------------
(* ConverterUtils.detectTypeFromArray                                      *)

DefaultMaxTupleSize == 10

DefaultMinTupleSize == 2

\* the tag of one element in the unique-type scan (null, undefined, object,
\* array, or typeof)
ElementTag(v) ==
    CASE v.kind = "null"      -> "null"
      [] v.kind = "undefined" -> "undefined"
      [] IsArray(v)           -> "array"
      [] TypeOf(v) = "object" -> "object"
      [] OTHER                -> TypeOf(v)

\* the tag of one element in the tuple that is built
TupleTag(v) ==
    CASE v.kind = "null"       -> "null"
      [] v.kind = "undefined"  -> "undefined"
      [] TypeOf(v) = "object"  -> "object"
      [] OTHER                 -> TypeOf(v)

\* detectTypeFromArray without the test for one shared primitive tag: every
\* array inside the size band becomes a tuple
detectTypeFromArrayAlwaysTuple(values, maxTupleSize, minTupleSize) ==
    IF Len(values) = 0 THEN TArrayOf(TPrim("any"))
    ELSE IF Len(values) > maxTupleSize \/ Len(values) < minTupleSize
    THEN LET types == { TypeOf(values[i]) : i \in DOMAIN values } \ {"object"}
         IN  IF Cardinality(types) = 1
             THEN TArrayOf(TPrim(CHOOSE t \in types : TRUE))
             ELSE TArrayOf(TPrim("any"))
    ELSE TTuple([i \in DOMAIN values |-> TPrim(TupleTag(values[i]))])

\* detectTypeFromArray with the lower bound compared by <= : an array of
\* exactly minTupleSize elements counts as too small
detectTypeFromArrayMinExcluded(values, maxTupleSize, minTupleSize) ==
    IF Len(values) = 0 THEN TArrayOf(TPrim("any"))
    ELSE IF Len(values) > maxTupleSize \/ Len(values) <= minTupleSize
    THEN LET types == { TypeOf(values[i]) : i \in DOMAIN values } \ {"object"}
         IN  IF Cardinality(types) = 1
             THEN TArrayOf(TPrim(CHOOSE t \in types : TRUE))
             ELSE TArrayOf(TPrim("any"))
    ELSE LET uniqueTypes == { ElementTag(values[i]) : i \in DOMAIN values }
         IN  IF /\ Cardinality(uniqueTypes) = 1
                /\ "object" \notin uniqueTypes
                /\ "array" \notin uniqueTypes
             THEN TArrayOf(TPrim(CHOOSE t \in uniqueTypes : TRUE))
             ELSE TTuple([i \in DOMAIN values |-> TPrim(TupleTag(values[i]))])

\* detectTypeFromArray without the filter t !== 'object' of the size branch
detectTypeFromArrayObjectsKept(values, maxTupleSize, minTupleSize) ==
    IF Len(values) = 0 THEN TArrayOf(TPrim("any"))
    ELSE IF Len(values) > maxTupleSize \/ Len(values) < minTupleSize
    THEN LET types == { TypeOf(values[i]) : i \in DOMAIN values }
         IN  IF Cardinality(types) = 1
             THEN TArrayOf(TPrim(CHOOSE t \in types : TRUE))
             ELSE TArrayOf(TPrim("any"))
    ELSE LET uniqueTypes == { ElementTag(values[i]) : i \in DOMAIN values }
         IN  IF /\ Cardinality(uniqueTypes) = 1
                /\ "object" \notin uniqueTypes
                /\ "array" \notin uniqueTypes
             THEN TArrayOf(TPrim(CHOOSE t \in uniqueTypes : TRUE))
             ELSE TTuple([i \in DOMAIN values |-> TPrim(TupleTag(values[i]))])

detectTypeFromArray(values, maxTupleSize, minTupleSize) ==
    IF Len(values) = 0 THEN TArrayOf(TPrim("any"))
    ELSE IF Len(values) > maxTupleSize \/ Len(values) < minTupleSize
    THEN LET types == { TypeOf(values[i]) : i \in DOMAIN values } \ {"object"}
         IN  IF Cardinality(types) = 1
             THEN TArrayOf(TPrim(CHOOSE t \in types : TRUE))
             ELSE TArrayOf(TPrim("any"))
    ELSE LET uniqueTypes == { ElementTag(values[i]) : i \in DOMAIN values }
         IN  IF /\ Cardinality(uniqueTypes) = 1
                /\ "object" \notin uniqueTypes
                /\ "array" \notin uniqueTypes
             THEN TArrayOf(TPrim(CHOOSE t \in uniqueTypes : TRUE))
             ELSE TTuple([i \in DOMAIN values |-> TPrim(TupleTag(values[i]))])

-----------------------------------------------------------------------------
(* ConverterUtils.detectJsTypeFromObject, on the kinds of value modelled   *)

detectJsTypeFromObject(obj, strict) ==
    LET strictAny == IF strict THEN "unknown" ELSE "any"
    IN  CASE obj.kind = "null" ->
               TPrim(IF strict THEN "null" ELSE "unknown")
          [] obj.kind = "undefined" ->
               TPrim(IF strict THEN "undefined" ELSE "unknown")
          [] IsArray(obj) /\ Len(Elems(obj)) = 0 ->
               TArrayOf(TPrim(strictAny))
          [] IsArray(obj) \/ obj.kind \in {"set", "selfset", "map"} ->
               TPrim(IF strict THEN "Iterable<unknown>" ELSE "Iterable<any>")
          [] obj.kind = "object" -> TNone
          [] obj.kind = "instance" ->
               IF ConstructorName(obj) \notin {"", "Object", "Function"}
               THEN TPrim(ConstructorName(obj))
               ELSE TNone
          [] OTHER -> TPrim(TypeOf(obj))

-----------------------------------------------------------------------------
(* ConvertOptions                                                          *)

\* x ?? d, an unset option being the empty set
Coalesce(x, d) == IF x = {} THEN d ELSE CHOOSE v \in x : TRUE

\* what every object literal inherits from Object.prototype: a lookup of one
\* of these keys on a type map finds the inherited member
ObjectPrototype ==
    [ constructor |-> "function Object() { [native code] }",
      toString    |-> "function toString() { [native code] }",
      valueOf     |-> "function valueOf() { [native code] }" ]

\* the map has an entry of its own under key
HasEntry(typeMap, key) == \E e \in typeMap : e[1] = key

OwnEntry(typeMap, key) == (CHOOSE e \in typeMap : e[1] = key)[2]

\* typeMap[key] as the code tests and returns it: the own entry, else the
\* inherited member, else undefined; "" stands for every falsy outcome
TypeMapGet(typeMap, key) ==
    IF HasEntry(typeMap, key) THEN OwnEntry(typeMap, key)
    ELSE IF key \in DOMAIN ObjectPrototype THEN ObjectPrototype[key]
    ELSE ""

\* the head of JsonToTsConverter.getType: the custom type mapping.
\* TNone when the mapping decides nothing.
MappedType(value, opts) ==
    IF opts.hasTypeMap /\ TypeOf(value) # "object" /\ value.kind # "null"
    THEN IF TypeMapGet(opts.typeMap, value.text) # ""
         THEN TPrim(TypeMapGet(opts.typeMap, value.text))
         ELSE IF TypeMapGet(opts.typeMap, TypeOf(value)) # ""
              THEN TPrim(TypeMapGet(opts.typeMap, TypeOf(value)))
              ELSE TNone
    ELSE TNone

-----------------------------------------------------------------------------
(* ConverterUtils.jsonParse                                                *)
(*                                                                         *)
(* An input text is a sequence of lexical chunks, each a run of characters *)
(* of the text: the punctuation of JSON, a blank, the digit 1, the word    *)
(* null, and x, a character no JSON value holds. JSON.parse is the host's: *)
(* it is modelled on the texts these chunks spell.                         *)

Chunk == {"{", "}", "[", "]", ",", " ", "1", "null", "x"}

\* the first character of a chunk
FirstChar(c) == IF c = "null" THEN "n" ELSE c

JSON_START_CHARS ==
    {"{", "[", "\"", "t", "f", "n", "-"} \cup Digit

RECURSIVE TrimStart(_)
TrimStart(s) ==
    IF s # <<>> /\ Head(s) = " " THEN TrimStart(Tail(s)) ELSE s

RECURSIVE TrimEnd(_)
TrimEnd(s) ==
    IF s # <<>> /\ s[Len(s)] = " "
    THEN TrimEnd(SubSeq(s, 1, Len(s) - 1))
    ELSE s

\* String.prototype.trim
Trim(s) == TrimEnd(TrimStart(s))

ParseFail == [ok |-> FALSE, val |-> VNull, rest |-> <<>>, n |-> 0]

ParseOk(v, rest, n) == [ok |-> TRUE, val |-> v, rest |-> rest, n |-> n]

RECURSIVE SkipDigits(_)
SkipDigits(s) ==
    IF s # <<>> /\ Head(s) = "1" THEN SkipDigits(Tail(s)) ELSE s

\* one JSON value at the head of s; n counts the records created so far
RECURSIVE ParseValue(_, _)
RECURSIVE ParseElements(_, _, _)
ParseValue(s, n) ==
    LET t == TrimStart(s)
    IN  IF t = <<>> THEN ParseFail
        ELSE CASE Head(t) = "1" ->
                    ParseOk(VNumber("1"), SkipDigits(t), n)
               [] Head(t) = "null" ->
                    ParseOk(VNull, Tail(t), n)
               [] Head(t) = "{" ->
                    LET u == TrimStart(Tail(t))
                    IN  IF u # <<>> /\ Head(u) = "}"
                        THEN ParseOk(VObject(n + 1), Tail(u), n + 1)
                        ELSE ParseFail
               [] Head(t) = "[" ->
                    LET u == TrimStart(Tail(t))
                    IN  IF u # <<>> /\ Head(u) = "]"
                        THEN ParseOk(VArray(<<>>), Tail(u), n)
                        ELSE ParseElements(Tail(t), <<>>, n)
               [] OTHER -> ParseFail

ParseElements(s, acc, n) ==
    LET r == ParseValue(s, n)
        u == TrimStart(r.rest)
    IN  IF ~r.ok \/ u = <<>> THEN ParseFail
        ELSE CASE Head(u) = "," ->
                    ParseElements(Tail(u), Append(acc, r.val), r.n)
               [] Head(u) = "]" ->
                    ParseOk(VArray(Append(acc, r.val)), Tail(u), r.n)
               [] OTHER -> ParseFail

\* JSON.parse of a whole text
JSONparse(s) ==
    LET r == ParseValue(s, 0)
    IN  IF r.ok /\ TrimStart(r.rest) = <<>> THEN r ELSE ParseFail

\* a text or a value handed to convert
TextInput(chunks) == [isText |-> TRUE, chunks |-> chunks, val |-> VUndefined]

ValueInput(v) == [isText |-> FALSE, chunks |-> <<>>, val |-> v]

ParseError(e) == [error |-> e, data |-> VNull, created |-> 0]

ParseData(v, n) == [error |-> "", data |-> v, created |-> n]

\* the null test that opens jsonParse
IsNullInput(json) == ~json.isText /\ json.val.kind = "null"

jsonParse(json) ==
    IF IsNullInput(json) THEN ParseError("INVALID_INPUT")
    ELSE IF ~json.isText THEN ParseData(json.val, 0)
    ELSE LET trimmed == Trim(json.chunks)
         IN  IF trimmed = <<>> THEN ParseError("INVALID_INPUT")
             ELSE IF FirstChar(Head(trimmed)) \notin JSON_START_CHARS
             THEN ParseError("INVALID_FORMAT")
             ELSE LET parsed == JSONparse(trimmed)
                  IN  IF parsed.ok THEN ParseData(parsed.val, parsed.n)
                      ELSE ParseError("PARSE_FAILED")

-----------------------------------------------------------------------------
(* Property names                                                          *)

Quoted(name) == <<"\"">> \o name \o <<"\"">>

\* ^[a-z][a-zA-Z0-9_$]*$
IsLowerIdentifier(name) ==
    /\ name # <<>>
    /\ Head(name) \in Lower
    /\ \A i \in DOMAIN name : name[i] \in WordChar

unnamedProperty ==
    <<"u","n","n","a","m","e","d","P","r","o","p","e","r","t","y">>

\* ConverterUtils.suggestPropertyName
suggestPropertyName(key) ==
    LET keyStr == Trim(key)
    IN  IF keyStr = <<>> THEN unnamedProperty
        ELSE IF IsLowerIdentifier(keyStr) THEN keyStr
        ELSE Quoted(keyStr)

\* JsonToTsConverter.toPropertyName with the property case 'original': the
\* method is called by generateInterface and defined in no source file
toPropertyName(key) ==
    IF IsLowerIdentifier(key) THEN key ELSE Quoted(key)

\* the words formatPropertyValue puts around the name of a property
Modifiers(readonly, optional) ==
    IF readonly
    THEN IF optional THEN "readonly ?" ELSE "readonly "
    ELSE IF optional THEN "?" ELSE ""

\* ConverterUtils.formatPropertyValue, the property case left at 'original'
\* (StringUtils.formatName then returns the name as it is):
\* `${readonly}${name}${optional}: ${type}`
formatPropertyValue(property, type, opts) ==
    Ty("field",
       Modifiers(opts.readonlyProperties, opts.optionalProperties),
       suggestPropertyName(property),
       <<type>>)

-----------------------------------------------------------------------------
(* ConverterUtils.toInterfaceName                                           *)

BUILT_IN_TYPES == {
    <<"S","t","r","i","n","g">>, <<"N","u","m","b","e","r">>,
    <<"B","o","o","l","e","a","n">>, <<"O","b","j","e","c","t">>,
    <<"A","r","r","a","y">>, <<"F","u","n","c","t","i","o","n">>,
    <<"D","a","t","e">>, <<"R","e","g","E","x","p">>, <<"E","r","r","o","r">>,
    <<"P","r","o","m","i","s","e">>, <<"M","a","p">>, <<"S","e","t">>,
    <<"W","e","a","k","M","a","p">>, <<"W","e","a","k","S","e","t">>,
    <<"S","y","m","b","o","l">>, <<"B","i","g","I","n","t">>,
    <<"a","n","y">>, <<"u","n","k","n","o","w","n">>, <<"n","e","v","e","r">>,
    <<"v","o","i","d">>, <<"n","u","l","l">>,
    <<"u","n","d","e","f","i","n","e","d">>
  }

\* the default of the parameter fallback
RootObject == <<"R","o","o","t","O","b","j","e","c","t">>

\* String.prototype.toLowerCase on one character
ToLowerCase(c) ==
    IF c \in Upper
    THEN LowerSeq[CHOOSE i \in DOMAIN UpperSeq : UpperSeq[i] = c]
    ELSE c

\* /^[A-Z][a-zA-Z0-9]*$/
IsUpperAlphanumeric(s) ==
    /\ s # <<>>
    /\ s[1] \in Upper
    /\ \A i \in DOMAIN s : s[i] \in Lower \cup Upper \cup Digit

\* str.charAt(0).toUpperCase() + str.slice(1)
UpperFirst(s) == IF s = <<>> THEN <<>> ELSE <<ToUpperCase(s[1])>> \o Tail(s)

\* replace(/[^a-zA-Z0-9_$]/g, ' ')
SpecialsToSpaces(s) ==
    [i \in DOMAIN s |-> IF s[i] \in WordChar THEN s[i] ELSE " "]

\* replace(/\s+/g, ' ').trim().split(' ').filter(word => word.length > 0)
RECURSIVE SplitWords(_, _)
SplitWords(s, word) ==
    IF s = <<>>
    THEN IF word = <<>> THEN <<>> ELSE <<word>>
    ELSE IF Head(s) = " "
    THEN (IF word = <<>> THEN <<>> ELSE <<word>>) \o SplitWords(Tail(s), <<>>)
    ELSE SplitWords(Tail(s), Append(word, Head(s)))

\* word.charAt(0).toUpperCase() + word.slice(1).toLowerCase()
PascalWord(word) ==
    <<ToUpperCase(word[1])>>
        \o [i \in 1..(Len(word) - 1) |-> ToLowerCase(word[i + 1])]

\* words.map(...).join('')
RECURSIVE JoinWords(_)
JoinWords(words) ==
    IF words = <<>> THEN <<>>
    ELSE PascalWord(Head(words)) \o JoinWords(Tail(words))

\* replace(/[_$]+$/, '')
RECURSIVE StripTrailingMarks(_)
StripTrailingMarks(s) ==
    IF s # <<>> /\ s[Len(s)] \in {"_", "$"}
    THEN StripTrailingMarks(SubSeq(s, 1, Len(s) - 1))
    ELSE s

\* /^[A-Za-z_$][a-zA-Z0-9_$]*$/
IsIdentifier(s) ==
    /\ s # <<>>
    /\ s[1] \in Lower \cup Upper \cup {"_", "$"}
    /\ \A i \in DOMAIN s : s[i] \in WordChar

\* toInterfaceName with the test for a built-in type passed by every name
toInterfaceNameSuffixed(name, fallback) ==
    IF Trim(name) = <<>> THEN fallback
    ELSE Trim(name) \o <<"T","y","p","e">>

toInterfaceName(name, fallback) ==
    LET trimmed == Trim(name)
    IN  IF trimmed = <<>> THEN fallback
        ELSE IF trimmed \in BUILT_IN_TYPES
        THEN trimmed \o <<"T","y","p","e">>
        ELSE IF IsUpperAlphanumeric(trimmed) /\ trimmed \notin TS_RESERVED_WORDS
        THEN trimmed
        ELSE IF /\ IsLowerIdentifier(trimmed)
                /\ UpperFirst(trimmed) \notin TS_RESERVED_WORDS
        THEN UpperFirst(trimmed)
        ELSE LET words == SplitWords(SpecialsToSpaces(trimmed), <<>>)
                 cleanName == StripTrailingMarks(JoinWords(words))
             IN  IF cleanName = <<>> THEN fallback
                 ELSE IF cleanName \in TS_RESERVED_WORDS THEN cleanName
                 ELSE IF cleanName[1] \in Digit THEN fallback
                 ELSE IF ~IsIdentifier(cleanName) THEN fallback
                 ELSE cleanName

-----------------------------------------------------------------------------
(* The heap and the call stack                                             *)

Field(k, v) == [key |-> k, val |-> v]

IndexKeys == <<"0", "1", "2", "3", "4", "5", "6", "7", "8", "9">>

\* Object.keys(obj) with the values under them: the fields of a record, the
\* indices of an array
Entries(v) ==
    IF HasOwnFields(v) THEN heap[v.ref]
    ELSE IF IsArray(v)
    THEN [i \in DOMAIN Elems(v) |-> Field(<<IndexKeys[i]>>, Elems(v)[i])]
    ELSE <<>>

Frame(v, name, appendExport) ==
    [val |-> v, name |-> name, appendExport |-> appendExport,
     phase |-> "enter", i |-> 1, body |-> <<>>]

Top == stack[Len(stack)]

Pop == SubSeq(stack, 1, Len(stack) - 1)

ReplaceTop(f) == [stack EXCEPT ![Len(stack)] = f]

\* a visited test that never recognises a record
IsVisitedNever(v, visited) == FALSE

\* the record a frame is about is in the WeakSet
IsVisited(v, visited) == HasOwnFields(v) /\ v.ref \in visited

\* an add that leaves the set as it was
MarkVisitedNothing(v, visited) == visited

\* WeakSet.add
MarkVisited(v, visited) ==
    IF HasOwnFields(v) THEN visited \cup {v.ref} ELSE visited

\* a delete that leaves the set as it was
UnmarkNothing(v, visited) == visited

\* WeakSet.delete
Unmark(v, visited) ==
    IF HasOwnFields(v) THEN visited \ {v.ref} ELSE visited

-----------------------------------------------------------------------------
(* Declarations                                                            *)

Decl(name, exported, form, body) ==
    [name |-> name, exported |-> exported, form |-> form, body |-> body]

\* the index signature of a root that is no record: [p: string]: unknown
TIndexSignature == Ty("index", "unknown", <<>>, <<>>)

\* Map.has
InterfacesHas(m, name) == \E i \in DOMAIN m : m[i].name = name

\* Map.set: a key that is present keeps its place and takes the new value
InterfacesSet(m, decl) ==
    IF InterfacesHas(m, decl.name)
    THEN [i \in DOMAIN m |-> IF m[i].name = decl.name THEN decl ELSE m[i]]
    ELSE Append(m, decl)

Reverse(s) == [i \in DOMAIN s |-> s[Len(s) + 1 - i]]

\* the order in which convertJson emits the table
OrderedInterfaces(m) == Reverse(m)

\* the export prefix convertJson puts before one entry of the table
WithRootExport(decl, rootInterfaceName, exportT) ==
    IF decl.name = rootInterfaceName /\ exportT = "root"
    THEN [decl EXCEPT !.exported = TRUE]
    ELSE decl

Returned(decls) == [kind |-> "returned", isNull |-> FALSE, decls |-> decls]

ReturnedNull == [kind |-> "returned", isNull |-> TRUE, decls |-> <<>>]

Thrown == [kind |-> "thrown", isNull |-> FALSE, decls |-> <<>>]

Pending == [kind |-> "pending", isNull |-> FALSE, decls |-> <<>>]

-----------------------------------------------------------------------------
(* ConverterBase.convert                                                   *)

\* the interface name is validated first; an invalid one is thrown to the
\* caller before anything is parsed
Validate ==
    /\ pc = "validate"
    /\ IF checkIdentifier(interfaceName)
       THEN pc' = "parse" /\ result' = result
       ELSE pc' = "done" /\ result' = Thrown
    /\ UNCHANGED <<inputs, naming, cli, previous, heap, parseResult, interfaces, visitedObjects,
                   stack, ret, logged>>

\* the records JSON.parse creates: in the texts modelled, empty ones
ParsedHeap(n) == [o \in 1..n |-> <<>>]

\* jsonParse, and the null return on a parse error
Parse ==
    /\ pc = "parse"
    /\ parseResult' = jsonParse(jsonData)
    /\ heap' = IF jsonData.isText /\ parseResult'.error = ""
               THEN ParsedHeap(parseResult'.created)
               ELSE heap
    /\ IF parseResult'.error # ""
       THEN pc' = "done" /\ result' = ReturnedNull
                         /\ logged' = parseResult'.error
       ELSE pc' = "convert" /\ result' = result /\ logged' = logged
    /\ UNCHANGED <<inputs, naming, cli, previous, interfaces, visitedObjects, stack, ret>>

\* convert has returned or thrown and is called once more with the same
\* arguments; what the converter of the first call held is still there
ConvertAgain ==
    /\ pc = "done"
    /\ previous = Pending
    /\ previous' = result
    /\ pc' = "validate"
    /\ result' = Pending
    /\ parseResult' = ParseError("unparsed")
    /\ logged' = ""
    /\ UNCHANGED <<inputs, naming, cli, heap, interfaces, visitedObjects,
                   stack, ret>>

\* typeof jsonData !== 'object' || jsonData === null
IsRecordLess(data) == TypeOf(data) # "object" \/ data.kind = "null"

\* what JsonToTsConverter.convertJson returns for a root that is no object
ReferencedRootless(rootInterfaceName, exportT, opts) ==
    IF opts.strict
    THEN Decl(rootInterfaceName, exportT # "none", "type", TPrim("null"))
    ELSE Decl(rootInterfaceName, exportT # "none", "interface",
              TBody(<<TIndexSignature>>))

\* what JsonToFlattenedTsConverter.convertJson returns for such a root
FlattenedRootless(rootInterfaceName, exportT) ==
    Decl(rootInterfaceName, exportT # "none", "interface", TBody(<<>>))

\* convertJson without `this.visitedObjects = new WeakSet()`, on the
\* converter of the call before
ConvertJsonSetKept ==
    /\ pc = "convert"
    /\ IF IsRecordLess(parseResult.data)
       THEN /\ pc' = "done"
            /\ result' = Returned(<<IF strategy = "referenced"
                                    THEN ReferencedRootless(interfaceName, exportType, options)
                                    ELSE FlattenedRootless(interfaceName, exportType)>>)
            /\ UNCHANGED <<interfaces, visitedObjects, stack>>
       ELSE /\ pc' = "walk"
            /\ interfaces' = <<>>
            /\ visitedObjects' = visitedObjects
            /\ stack' = <<Frame(parseResult.data, interfaceName,
                                exportType = "all")>>
            /\ result' = result
    /\ UNCHANGED <<inputs, naming, cli, previous, heap, parseResult, ret, logged>>

\* createConverter and the head of convertJson: a root that is no object is
\* answered at once, otherwise the table and the visited set are reset and
\* the walk starts at the root
ConvertJson ==
    /\ pc = "convert"
    /\ IF IsRecordLess(parseResult.data)
       THEN /\ pc' = "done"
            /\ result' = Returned(<<IF strategy = "referenced"
                                    THEN ReferencedRootless(interfaceName, exportType, options)
                                    ELSE FlattenedRootless(interfaceName, exportType)>>)
            /\ UNCHANGED <<interfaces, visitedObjects, stack>>
       ELSE /\ pc' = "walk"
            /\ interfaces' = <<>>
            /\ visitedObjects' = {}
            /\ stack' = <<Frame(parseResult.data, interfaceName,
                                exportType = "all")>>
            /\ result' = result
    /\ UNCHANGED <<inputs, naming, cli, previous, heap, parseResult, ret, logged>>

\* the walk is inside a frame that is about to read its next property
AtProperty ==
    /\ pc = "walk"
    /\ stack # <<>>
    /\ Top.phase = "loop"
    /\ Top.i <= Len(Entries(Top.val))

CurrentField == Entries(Top.val)[Top.i]

\* a convert without its catch: the exception reaches the caller
CatchErrorRethrown(message) ==
    /\ pc' = "done"
    /\ result' = Thrown
    /\ stack' = <<>>
    /\ logged' = message

\* the catch of convert: an exception raised under convertJson leaves every
\* frame, is logged, and convert returns null
CatchError(message) ==
    /\ pc' = "done"
    /\ result' = ReturnedNull
    /\ stack' = <<>>
    /\ logged' = message

\* reading a property throws
WalkThrows ==
    /\ AtProperty
    /\ CurrentField.val.kind = "throws"
    /\ CatchError("getter")
    /\ UNCHANGED <<inputs, naming, cli, previous, heap, parseResult, interfaces, visitedObjects, ret>>

-----------------------------------------------------------------------------
(* JsonToTsConverter: generateInterface and getType                        *)

\* generateInterface up to its loop: a record seen before returns at once,
\* a new one is marked; a name already in the table returns as well
RefEnter ==
    /\ pc = "walk" /\ strategy = "referenced"
    /\ stack # <<>> /\ Top.phase = "enter"
    /\ IF IsVisited(Top.val, visitedObjects)
       THEN /\ stack' = Pop
            /\ UNCHANGED visitedObjects
       ELSE /\ visitedObjects' = MarkVisited(Top.val, visitedObjects)
            /\ IF InterfacesHas(interfaces, Top.name)
               THEN stack' = Pop
               ELSE stack' = ReplaceTop([Top EXCEPT !.phase = "loop"])
    /\ UNCHANGED <<inputs, naming, cli, previous, heap, pc, parseResult, interfaces, ret, logged,
                   result>>

SetValue == <<"S","e","t","V","a","l","u","e">>

MapKey == <<"M","a","p","K","e","y">>

MapValue == <<"M","a","p","V","a","l","u","e">>

Instance == <<"I","n","s","t","a","n","c","e">>

\* the declaration name getType gives the object under parentKey: an object
\* whose constructor is not Object gets the suffix Instance
ObjectInterfaceName(value, parentKey) ==
    IF ConstructorName(value) # "Object"
    THEN capitalize(parentKey \o Instance)
    ELSE capitalize(parentKey)

\* getType never returns: it calls itself on the first member of a Set, and
\* that member is the set
RECURSIVE Diverges(_)
Diverges(value) ==
    \/ value.kind = "selfset"
    \/ value.kind = "set" /\ Len(value.elems) > 0 /\ Diverges(value.elems[1])
    \/ value.kind = "map" /\ Len(value.elems) > 0
          /\ (Diverges(value.elems[1]) \/ Diverges(value.elems[2]))

\* the type text JsonToTsConverter.getType returns
RECURSIVE getType(_, _, _)
getType(value, parentKey, opts) ==
    IF MappedType(value, opts) # TNone THEN MappedType(value, opts)
    ELSE CASE value.kind = "set" ->
                TGeneric("Set",
                    <<IF Len(value.elems) > 0
                      THEN getType(value.elems[1], SetValue, opts)
                      ELSE TPrim("unknown")>>)
           [] value.kind = "map" ->
                IF Len(value.elems) > 0
                THEN TGeneric("Map", <<getType(value.elems[1], MapKey, opts),
                                       getType(value.elems[2], MapValue, opts)>>)
                ELSE TGeneric("Map", <<TPrim("unknown"), TPrim("unknown")>>)
           [] IsArray(value) /\ Len(Elems(value)) > 0 ->
                detectTypeFromArray(Elems(value),
                    Coalesce(opts.arrayMaxTupleSize, DefaultMaxTupleSize),
                    Coalesce(opts.arrayMinTupleSize, DefaultMinTupleSize))
           [] OTHER ->
                LET basicType == detectJsTypeFromObject(value, opts.strict)
                IN  IF basicType # TNone THEN basicType
                    ELSE TRef(ObjectInterfaceName(value, parentKey))

\* the calls of generateInterface that getType makes on the way, in order,
\* each as the frame it opens
RECURSIVE getTypeCalls(_, _, _, _)
getTypeCalls(value, parentKey, appendExport, opts) ==
    IF MappedType(value, opts) # TNone THEN <<>>
    ELSE CASE value.kind = "set" ->
                IF Len(value.elems) > 0
                THEN getTypeCalls(value.elems[1], SetValue, FALSE, opts)
                ELSE <<>>
           [] value.kind = "map" ->
                IF Len(value.elems) > 0
                THEN getTypeCalls(value.elems[1], MapKey, FALSE, opts)
                     \o getTypeCalls(value.elems[2], MapValue, FALSE, opts)
                ELSE <<>>
           [] IsArray(value) /\ Len(Elems(value)) > 0 -> <<>>
           [] OTHER ->
                IF detectJsTypeFromObject(value, opts.strict) # TNone THEN <<>>
                ELSE <<Frame(value, ObjectInterfaceName(value, parentKey),
                             appendExport)>>

\* one turn of the loop: getType on the property's value, with the calls of
\* generateInterface it makes; the first of them is on top of the stack. A
\* call the engine's stack has no room for raises a RangeError.
RefProp ==
    /\ AtProperty /\ strategy = "referenced"
    /\ CurrentField.val.kind # "throws"
    /\ LET f         == CurrentField
           parentKey == capitalize(f.key)
           calls     == getTypeCalls(f.val, parentKey, Top.appendExport, options)
           line      == TField(toPropertyName(f.key),
                               getType(f.val, parentKey, options))
           next      == [Top EXCEPT !.i = @ + 1, !.body = Append(@, line)]
       IN  IF Diverges(f.val) \/ Len(stack) + Len(calls) > MaxDepth
           THEN CatchError("RangeError")
           ELSE /\ stack' = ReplaceTop(next) \o Reverse(calls)
                /\ UNCHANGED <<pc, result, logged>>
    /\ UNCHANGED <<inputs, naming, cli, previous, heap, parseResult, interfaces, visitedObjects, ret>>

\* the end of generateInterface: the declaration goes into the table
RefFinish ==
    /\ pc = "walk" /\ strategy = "referenced"
    /\ stack # <<>> /\ Top.phase = "loop"
    /\ Top.i > Len(Entries(Top.val))
    /\ interfaces' = InterfacesSet(interfaces,
                        Decl(Top.name, Top.appendExport, "interface",
                             TBody(Top.body)))
    /\ stack' = Pop
    /\ UNCHANGED <<inputs, naming, cli, previous, heap, pc, parseResult, visitedObjects, ret, logged,
                   result>>

\* the tail of convertJson: the table reversed, the root exported
RefAssemble ==
    /\ pc = "walk" /\ strategy = "referenced"
    /\ stack = <<>>
    /\ pc' = "done"
    /\ result' = Returned(
          [i \in DOMAIN interfaces |->
              WithRootExport(OrderedInterfaces(interfaces)[i],
                             interfaceName, exportType)])
    /\ UNCHANGED <<inputs, naming, cli, previous, heap, parseResult, interfaces, visitedObjects,
                   stack, ret, logged>>

-----------------------------------------------------------------------------
(* JsonToFlattenedTsConverter: generateObjectBody and getType              *)

\* obj.every(item => item === null || typeof item !== 'object')
ContainsOnlyPrimitives(es) ==
    \A i \in DOMAIN es : es[i].kind = "null" \/ TypeOf(es[i]) # "object"

\* what generateObjectBody answers without a further call; TNone when it
\* has to descend (an array holding an object, a record not in the set). A
\* Set or a Map is an object with no key of its own: its body is empty.
FlatImmediate(v, visited, opts) ==
    CASE v.kind = "null" -> TPrim("null")
      [] IsArray(v) ->
           IF Len(Elems(v)) = 0 THEN TArrayOf(TBody(<<>>))
           ELSE IF ContainsOnlyPrimitives(Elems(v))
           THEN detectTypeFromArray(Elems(v),
                    Coalesce(opts.arrayMaxTupleSize, DefaultMaxTupleSize),
                    Coalesce(opts.arrayMinTupleSize, DefaultMinTupleSize))
           ELSE TNone
      [] v.kind = "object" ->
           IF IsVisited(v, visited) THEN TPrim("any") ELSE TNone
      [] v.kind \in {"set", "selfset", "map"} -> TBody(<<>>)
      [] OTHER -> TPrim(TypeOf(v))

\* generateObjectBody up to its loop
FlatEnter ==
    /\ pc = "walk" /\ strategy = "flattened"
    /\ stack # <<>> /\ Top.phase = "enter"
    /\ LET ty == FlatImmediate(Top.val, visitedObjects, options)
       IN  IF ty # TNone
           THEN /\ stack' = Pop
                /\ ret' = ty
                /\ UNCHANGED <<visitedObjects, pc, result, logged>>
           ELSE IF IsArray(Top.val)
           THEN IF Len(stack) < MaxDepth
                THEN /\ stack' = Append(ReplaceTop([Top EXCEPT !.phase = "elem"]),
                                        Frame(Elems(Top.val)[1], <<>>, FALSE))
                     /\ UNCHANGED <<visitedObjects, ret, pc, result, logged>>
                ELSE /\ CatchError("RangeError")
                     /\ UNCHANGED <<visitedObjects, ret>>
           ELSE /\ visitedObjects' = MarkVisited(Top.val, visitedObjects)
                /\ stack' = ReplaceTop([Top EXCEPT !.phase = "loop"])
                /\ UNCHANGED <<ret, pc, result, logged>>
    /\ UNCHANGED <<inputs, naming, cli, previous, heap, parseResult, interfaces>>

\* one turn of the loop: getType on the property's value
FlatProp ==
    /\ AtProperty /\ strategy = "flattened"
    /\ CurrentField.val.kind # "throws"
    /\ IF Len(stack) < MaxDepth
       THEN /\ stack' = Append(ReplaceTop([Top EXCEPT !.phase = "prop"]),
                               Frame(CurrentField.val, <<>>, FALSE))
            /\ UNCHANGED <<pc, result, logged>>
       ELSE CatchError("RangeError")
    /\ UNCHANGED <<inputs, naming, cli, previous, heap, parseResult, interfaces, visitedObjects, ret>>

\* getType has returned: the property's line is added to the body
FlatPropReturn ==
    /\ pc = "walk" /\ strategy = "flattened"
    /\ stack # <<>> /\ Top.phase = "prop"
    /\ LET f    == Entries(Top.val)[Top.i]
           line == TField(suggestPropertyName(f.key), ret)
       IN  stack' = ReplaceTop([Top EXCEPT !.phase = "loop", !.i = @ + 1,
                                           !.body = Append(@, line)])
    /\ ret' = TNone
    /\ UNCHANGED <<inputs, naming, cli, previous, heap, pc, parseResult, interfaces, visitedObjects,
                   logged, result>>

\* the first element's type has returned: the array is that type with []
FlatElemReturn ==
    /\ pc = "walk" /\ strategy = "flattened"
    /\ stack # <<>> /\ Top.phase = "elem"
    /\ stack' = Pop
    /\ ret' = TArrayOf(ret)
    /\ UNCHANGED <<inputs, naming, cli, previous, heap, pc, parseResult, interfaces, visitedObjects,
                   logged, result>>

\* the end of generateObjectBody: the record leaves the visited set and its
\* body is returned
FlatFinish ==
    /\ pc = "walk" /\ strategy = "flattened"
    /\ stack # <<>> /\ Top.phase = "loop"
    /\ Top.i > Len(Entries(Top.val))
    /\ visitedObjects' = Unmark(Top.val, visitedObjects)
    /\ ret' = TBody(Top.body)
    /\ stack' = Pop
    /\ UNCHANGED <<inputs, naming, cli, previous, heap, pc, parseResult, interfaces, logged, result>>

\* .replace(/\[]$/, '') on the declaration text
StripTrailingArray(ty) == IF ty.t = "array" THEN ty.sub[1] ELSE ty

\* the tail of convertJson: the one declaration
FlatAssemble ==
    /\ pc = "walk" /\ strategy = "flattened"
    /\ stack = <<>>
    /\ pc' = "done"
    /\ result' = Returned(<<Decl(interfaceName, exportType # "none",
                                 "interface", StripTrailingArray(ret))>>)
    /\ UNCHANGED <<inputs, naming, cli, previous, heap, parseResult, interfaces, visitedObjects,
                   stack, ret, logged>>

-----------------------------------------------------------------------------
(* Inputs                                                                  *)

DefaultOptions ==
    [strict |-> FALSE, hasTypeMap |-> FALSE, typeMap |-> {},
     arrayMaxTupleSize |-> {}, arrayMinTupleSize |-> {},
     readonlyProperties |-> FALSE, optionalProperties |-> FALSE]

ExportTypes == {"all", "root", "none"}

Strategies == {"referenced", "flattened"}

KeyA == <<"a">>

KeyB == <<"b">>

NameR == <<"R">>

\* a root name equal to the declaration name of a record under the key a
NameA == <<"A">>

NamePerson == <<"P","e","r","s","o","n">>

ObjIds == 1..NumObjs

\* sequences over S of length lo..hi
SeqsOf(S, lo, hi) == UNION { [1..n -> S] : n \in lo..hi }

\* graphs of records: every record has no field, the field a, or the fields
\* a and b, each a number or a reference to any record (itself included)
GraphValues == {VNumber("1")} \cup { VObject(o) : o \in ObjIds }

GraphFields ==
    {<<>>}
    \cup { <<Field(KeyA, v)>> : v \in GraphValues }
    \cup { <<Field(KeyA, v), Field(KeyB, w)>> : v, w \in GraphValues }

RefsOf(fields) ==
    { fields[i].val.ref : i \in { j \in DOMAIN fields : fields[j].val.kind = "object" } }

RECURSIVE ReachableFrom(_, _)
ReachableFrom(h, seen) ==
    LET more == seen \cup UNION { RefsOf(h[o]) : o \in seen }
    IN  IF more = seen THEN seen ELSE ReachableFrom(h, more)

\* a record the root does not reach is left empty, and the records the root
\* reaches are the first ones
GraphHeaps ==
    { h \in [ObjIds -> GraphFields] :
        LET reach == ReachableFrom(h, {1})
        IN  /\ \A o \in ObjIds \ reach : h[o] = <<>>
            /\ \A o \in reach : \A q \in 1..(o - 1) : q \in reach }

InitWalkState ==
    /\ pc = "validate"
    /\ parseResult = ParseError("unparsed")
    /\ interfaces = <<>>
    /\ visitedObjects = {}
    /\ stack = <<>>
    /\ ret = TNone
    /\ logged = ""
    /\ result = Pending
    /\ utilArg = <<>>
    /\ utilRet = <<>>
    /\ NoCommandLine
    /\ previous = Pending

\* record graphs with sharing and cycles, under both converters and every
\* export type
InitGraph ==
    /\ heap \in GraphHeaps
    /\ jsonData = ValueInput(VObject(1))
    /\ \/ strategy = "referenced" /\ exportType \in ExportTypes
                                  /\ interfaceName \in {NameR, NameA}
       \/ strategy = "flattened" /\ exportType = "root" /\ interfaceName = NameR
    /\ options = DefaultOptions

\* one record whose property a is an array of primitives, records (the
\* record itself among them) and arrays; the array is also given as the root
ArrayElems ==
    {VNumber("1"), VString("a"), VNull, VObject(1), VObject(2), VArray(<<>>)}

ArrayValues == { VArray(es) : es \in SeqsOf(ArrayElems, 1, MaxArrayLen) }

ArrayHeap(arr) ==
    <<  <<Field(KeyA, arr)>>,  <<Field(KeyB, VNumber("1"))>>  >>

InitArrays ==
    /\ \E arr \in ArrayValues :
          /\ heap = ArrayHeap(arr)
          /\ jsonData \in {ValueInput(VObject(1)), ValueInput(arr)}
    /\ strategy \in Strategies
    /\ exportType = "root"
    /\ interfaceName = NameR
    /\ options \in {DefaultOptions,
                    [DefaultOptions EXCEPT !.arrayMaxTupleSize = {1}]}

\* one record whose property a is a primitive, under every strictness and
\* type map
PrimValues ==
    {VNull, VUndefined, VString("a"), VString("constructor"),
     VNumber("1"), VBoolean("true")}

TypeMapKeys == {"a", "1", "string", "number"}

TypeMapTypes == {"", "X", "Y"}

TypeMaps ==
    { m \in SUBSET (TypeMapKeys \X TypeMapTypes) :
        /\ Cardinality(m) <= 2
        /\ \A e, g \in m : e[1] = g[1] => e = g }

InitTypes ==
    /\ \E v \in PrimValues : heap = << <<Field(KeyA, v)>> >>
    /\ jsonData = ValueInput(VObject(1))
    /\ exportType = "root"
    /\ interfaceName = NameR
    /\ \/ /\ strategy = "referenced"
          /\ \E st \in BOOLEAN :
                \/ options = [DefaultOptions EXCEPT !.strict = st]
                \/ \E m \in TypeMaps :
                      options = [DefaultOptions EXCEPT !.strict = st,
                                    !.hasTypeMap = TRUE, !.typeMap = m]
       \/ /\ strategy = "flattened"
          /\ \E st \in BOOLEAN : options = [DefaultOptions EXCEPT !.strict = st]

\* texts, and the values convert is given where a text or a record is meant
TextInputs == { TextInput(t) : t \in SeqsOf(Chunk, 0, MaxTextLen) }

InitText ==
    /\ jsonData \in TextInputs \cup {ValueInput(VNull), ValueInput(VUndefined),
                                     ValueInput(VNumber("1"))}
    /\ heap = <<>>
    /\ strategy \in Strategies
    /\ exportType = "root"
    /\ interfaceName = NameR
    /\ \E st \in BOOLEAN : options = [DefaultOptions EXCEPT !.strict = st]

\* root names, valid and not
RootNames ==
    { NameR, NamePerson,
      <<"1","2","3","i","n","v","a","l","i","d">>,
      <<>>, <<"i","f">>, <<"_">>, <<"a","-","b">>, <<"$","x">> }

InitNames ==
    /\ interfaceName \in RootNames
    /\ heap = << <<Field(KeyA, VNumber("1"))>> >>
    /\ jsonData \in {ValueInput(VObject(1)), ValueInput(VNull),
                     ValueInput(VUndefined), TextInput(<<"[">>),
                     TextInput(<<"{", "}">>)}
    /\ strategy \in Strategies
    /\ exportType = "root"
    /\ options = DefaultOptions

\* records with an accessor property whose getter throws
InitAccessor ==
    /\ heap \in { << <<Field(KeyA, VNumber("1")), Field(KeyB, VThrows)>> >>,
                  << <<Field(KeyA, VObject(2))>>, <<Field(KeyA, VThrows)>> >> }
    /\ jsonData = ValueInput(VObject(1))
    /\ strategy \in Strategies
    /\ exportType = "root"
    /\ interfaceName = NameR
    /\ options = DefaultOptions

\* one record whose property a is a Set or a Map, of primitives, of records,
\* of a Set, or of itself; the collection is also given as the root
CollectionValues ==
    { VSet(<<>>), VSet(<<VNumber("1")>>), VSet(<<VObject(2)>>),
      VSet(<<VNumber("1"), VObject(2)>>), VSet(<<VSet(<<VObject(2)>>)>>),
      VMap(<<>>), VMap(<<VString("k"), VObject(2)>>),
      VMap(<<VObject(2), VNumber("1")>>), VMap(<<VObject(2), VObject(1)>>),
      VSelfSet, VSelfArray }

InitCollections ==
    /\ \E c \in CollectionValues :
          /\ heap = <<  <<Field(KeyA, c)>>,  <<Field(KeyB, VNumber("1"))>>  >>
          /\ jsonData \in {ValueInput(VObject(1)), ValueInput(c)}
    /\ strategy \in Strategies
    /\ exportType \in ExportTypes
    /\ interfaceName = NameR
    /\ options = DefaultOptions

KeyUser == <<"u","s","e","r">>

KeyName == <<"n","a","m","e">>

KeyAge == <<"a","g","e">>

\* {"user": {"name": "John", "age": 30}} converted under the name Person
PersonHeap ==
    <<  <<Field(KeyUser, VObject(2))>>,
        <<Field(KeyName, VString("John")), Field(KeyAge, VNumber("30"))>>  >>

InitPerson ==
    /\ heap = PersonHeap
    /\ jsonData = ValueInput(VObject(1))
    /\ strategy \in Strategies
    /\ exportType \in ExportTypes
    /\ interfaceName = NamePerson
    /\ \E ro \in BOOLEAN, op \in BOOLEAN :
          options = [DefaultOptions EXCEPT !.readonlyProperties = ro,
                                           !.optionalProperties = op]

\* the names of the constructors: a class with a name and one without
ConstructorNames == {"Point", ""}

\* one record whose property a is an instance of a class, with one field
InitInstance ==
    /\ \E c \in ConstructorNames :
          heap = <<  <<Field(KeyA, VInstance(c, 2))>>,
                     <<Field(KeyB, VNumber("1"))>>  >>
    /\ jsonData = ValueInput(VObject(1))
    /\ strategy = "referenced"
    /\ exportType \in ExportTypes
    /\ interfaceName = NameR
    /\ options \in {DefaultOptions, [DefaultOptions EXCEPT !.strict = TRUE]}

Init ==
    /\ InitWalkState
    /\ \/ InitGraph
       \/ InitArrays
       \/ InitTypes
       \/ InitText
       \/ InitNames
       \/ InitAccessor
       \/ InitCollections
       \/ InitPerson
       \/ InitInstance

Next ==
    \/ Validate
    \/ Parse
    \/ ConvertJson
    \/ ConvertAgain
    \/ WalkThrows
    \/ RefEnter
    \/ RefProp
    \/ RefFinish
    \/ RefAssemble
    \/ FlatEnter
    \/ FlatProp
    \/ FlatPropReturn
    \/ FlatElemReturn
    \/ FlatFinish
    \/ FlatAssemble

Spec == Init /\ [][Next]_vars

\* convert is one synchronous call: a step that can be taken is taken
FairSpec == Spec /\ WF_vars(Next)

Done == pc = "done"

-----------------------------------------------------------------------------
(* What a finished call shows                                              *)

\* convert returned a declaration text
ReturnedText == pc = "done" /\ result.kind = "returned" /\ ~result.isNull

\* convert was given the record 1 itself, not a text
RecordRoot == ~jsonData.isText /\ jsonData.val = VObject(1)

\* the declarations of the returned text that carry the export marker
ExportedDecls == { i \in DOMAIN result.decls : result.decls[i].exported }

\* the place of the declaration named after the root
RootDeclIndex ==
    CHOOSE i \in DOMAIN result.decls : result.decls[i].name = interfaceName

\* the type the i-th property of the root record was given
RootFieldType(i) == result.decls[RootDeclIndex].body.sub[i].sub[1]

\* the declaration names a type text refers to
RECURSIVE TypeRefs(_)
TypeRefs(ty) ==
    IF ty.t = "ref" THEN {ty.id}
    ELSE UNION { TypeRefs(ty.sub[i]) : i \in DOMAIN ty.sub }

\* the input holds an array or a Set that contains itself
HoldsItself ==
    \/ jsonData.val.kind \in {"selfarray", "selfset"}
    \/ \E o \in DOMAIN heap : \E i \in DOMAIN heap[o] :
          heap[o][i].val.kind \in {"selfarray", "selfset"}

\* the walk is about to enter generateObjectBody on a record
FlatAtRecord ==
    /\ pc = "walk" /\ strategy = "flattened"
    /\ stack # <<>> /\ Top.phase = "enter"
    /\ Top.val.kind = "object"

\* a call below the top of the stack is rendering the same value
OnPath(v) == \E k \in 1..(Len(stack) - 1) : stack[k].val = v

HasRecord(es) == \E j \in DOMAIN es : es[j].kind = "object"

-----------------------------------------------------------------------------
(* C1: termination on cyclic graphs                                        *)

\* C1: under either strategy convert comes to its end, and with a valid root
\* name it returns (a text or null); a graph whose cycles run through records
\* (a record that refers to itself or to an ancestor) never takes it to the
\* end of the call stack: only an array or a Set that contains itself does.
C1_ConvertReturns ==
    /\ <>(Done /\ (checkIdentifier(interfaceName) => result.kind = "returned"))
    /\ [](logged = "RangeError" => HoldsItself)

\* a record and its child that refers back to it, converted to a text
C1_BackReferenceConverted ==
    /\ ReturnedText
    /\ Len(heap) >= 2
    /\ heap[1] = <<Field(KeyA, VObject(2))>>
    /\ heap[2] = <<Field(KeyA, VObject(1))>>

-----------------------------------------------------------------------------
(* C2: the export policy of JsonToTsConverter                              *)

\* C2: in the text JsonToTsConverter returns, under 'all' every declaration
\* is exported, under 'root' exactly one is and it is the one named after the
\* root, under 'none' none is.
C2_ExportPolicy ==
    (ReturnedText /\ strategy = "referenced") =>
        CASE exportType = "all" ->
                 ExportedDecls = DOMAIN result.decls
          [] exportType = "root" ->
                 \E i \in DOMAIN result.decls :
                     /\ ExportedDecls = {i}
                     /\ result.decls[i].name = interfaceName
          [] OTHER ->
                 ExportedDecls = {}

-----------------------------------------------------------------------------
(* C3: the order of the declarations                                       *)

\* C3: in the text JsonToTsConverter returns, the declaration of the root is
\* the last one, and a declaration another one refers to (without being
\* referred back) stands before it; so User stands before Person.
C3_DependenciesFirst ==
    (ReturnedText /\ strategy = "referenced" /\ RecordRoot) =>
        /\ result.decls[Len(result.decls)].name = interfaceName
        /\ \A i, j \in DOMAIN result.decls :
              ( /\ i # j
                /\ result.decls[i].name \in TypeRefs(result.decls[j].body)
                /\ result.decls[j].name \notin TypeRefs(result.decls[i].body) )
              => i < j

-----------------------------------------------------------------------------
(* C4: a record inside itself, flattened                                   *)

\* C4: when generateObjectBody of the flattened converter is called on a
\* record that a call below it on the stack is still rendering, the call
\* returns any at once: it opens no loop over the record's fields.
C4_InnerOccurrenceIsAny ==
    [][ (FlatAtRecord /\ OnPath(Top.val))
          => (ret' = TPrim("any") /\ stack' = Pop) ]_vars

\* a record whose property a is the record itself, converted: a is any
C4_SelfReferenceRendered ==
    /\ pc = "done" /\ strategy = "flattened"
    /\ Len(heap) >= 1
    /\ heap[1] = <<Field(KeyA, VObject(1))>>
    /\ result = Returned(<<Decl(NameR, TRUE, "interface",
                                TBody(<<TField(KeyA, TPrim("any"))>>))>>)

-----------------------------------------------------------------------------
(* C5: a record reached twice, flattened                                   *)

\* C5: when generateObjectBody of the flattened converter is called on a
\* record that no call below it on the stack is rendering, the call opens the
\* loop over the record's fields, whether or not the record was rendered
\* before, and it returns a body with one line per field.
C5_SharedRecordIsExpanded ==
    [][ /\ (FlatAtRecord /\ ~OnPath(Top.val))
             => ( /\ stack' = ReplaceTop([Top EXCEPT !.phase = "loop"])
                  /\ ret' = ret )
        /\ ( /\ pc = "walk" /\ strategy = "flattened" /\ stack # <<>>
             /\ Top.phase = "loop" /\ Top.i > Len(Entries(Top.val)) )
             => ( /\ ret'.t = "body"
                  /\ Len(ret'.sub) = Len(Entries(Top.val)) ) ]_vars

\* one record under two sibling properties, converted: both have its body
C5_SiblingsRendered ==
    /\ pc = "done" /\ strategy = "flattened"
    /\ Len(heap) >= 2
    /\ heap[1] = <<Field(KeyA, VObject(2)), Field(KeyB, VObject(2))>>
    /\ heap[2] = <<Field(KeyA, VNumber("1"))>>
    /\ LET inner == TBody(<<TField(KeyA, TPrim("number"))>>)
       IN  result = Returned(<<Decl(NameR, TRUE, "interface",
                                    TBody(<<TField(KeyA, inner),
                                            TField(KeyB, inner)>>))>>)

-----------------------------------------------------------------------------
(* C6: inputs that cannot be parsed                                        *)

\* the input is null, undefined, or a text that is no JSON (an empty one and
\* one of blanks included)
BadInput ==
    IF jsonData.isText THEN ~JSONparse(Trim(jsonData.chunks)).ok
    ELSE jsonData.val.kind \in {"null", "undefined"}

\* C6: with a valid root name, convert on such an input returns null.
C6_NullOnBadInput ==
    (Done /\ checkIdentifier(interfaceName) /\ BadInput)
        => result = ReturnedNull

-----------------------------------------------------------------------------
(* C7: what convert throws                                                 *)

\* C7: convert throws exactly when the root name is no valid identifier, and
\* it does so before it parses or logs anything; every failure it logs (a
\* parse error, an exception raised during the conversion) is a null return.
C7_ThrowsOnlyOnInvalidName ==
    /\ result.kind = "thrown" =>
          ( /\ ~checkIdentifier(interfaceName)
            /\ parseResult = ParseError("unparsed")
            /\ logged = "" )
    /\ (Done /\ ~checkIdentifier(interfaceName)) => result.kind = "thrown"
    /\ (Done /\ logged # "") => result = ReturnedNull

\* a getter threw during the walk, and convert returned null
C7_ConversionErrorIsNull ==
    /\ Done
    /\ checkIdentifier(interfaceName)
    /\ logged = "getter"
    /\ result = ReturnedNull

-----------------------------------------------------------------------------
(* C8: arrays that hold records, under JsonToTsConverter                   *)

\* C8: a property of the root whose value is an array holding a record is
\* typed Name[], Name made from the property key, and the text declares Name.
C8_RecordArrayIsNamed ==
    (ReturnedText /\ strategy = "referenced" /\ RecordRoot) =>
        \A i \in DOMAIN heap[1] :
            (IsArray(heap[1][i].val) /\ HasRecord(Elems(heap[1][i].val))) =>
                /\ RootFieldType(i) = TArrayOf(TRef(capitalize(heap[1][i].key)))
                /\ \E d \in DOMAIN result.decls :
                      result.decls[d].name = capitalize(heap[1][i].key)

-----------------------------------------------------------------------------
(* C9: the type of null                                                    *)

\* C9: a property of the root whose value is null is typed null, whatever
\* the strict option.
C9_NullIsNull ==
    (ReturnedText /\ RecordRoot) =>
        \A i \in DOMAIN heap[1] :
            heap[1][i].val.kind = "null" => RootFieldType(i) = TPrim("null")

-----------------------------------------------------------------------------
(* C10: the type map                                                       *)

\* C10: with a type map of type names, a property of the root whose value is
\* a string, a number or a boolean is typed by the map's entry under the value
\* if there is one, otherwise by its entry under the value's typeof if there
\* is one.
C10_TypeMapDecides ==
    ( /\ ReturnedText /\ strategy = "referenced" /\ RecordRoot
      /\ options.hasTypeMap
      /\ \A e \in options.typeMap : e[2] # "" ) =>
        \A i \in DOMAIN heap[1] :
            LET v == heap[1][i].val
                m == options.typeMap
            IN  v.kind \in {"string", "number", "boolean"} =>
                    IF HasEntry(m, v.text)
                    THEN RootFieldType(i) = TPrim(OwnEntry(m, v.text))
                    ELSE HasEntry(m, TypeOf(v)) =>
                            RootFieldType(i) = TPrim(OwnEntry(m, TypeOf(v)))

-----------------------------------------------------------------------------
(* C11: readonlyProperties and optionalProperties                          *)

\* the property lines of a body, those of the bodies nested in it included
RECURSIVE FieldLines(_)
FieldLines(ty) ==
    (IF ty.t = "field" THEN {ty} ELSE {})
        \cup UNION { FieldLines(ty.sub[i]) : i \in DOMAIN ty.sub }

\* the property lines of every declaration of the returned text
ReturnedLines ==
    UNION { FieldLines(result.decls[i].body) : i \in DOMAIN result.decls }

\* C11: in a returned text every property line, of every declaration and at
\* every depth, under either strategy, carries the readonly modifier when
\* readonlyProperties is set and the ? after its name when optionalProperties
\* is set.
C11_ModifiersOnEveryProperty ==
    ReturnedText =>
        \A line \in ReturnedLines :
            /\ options.readonlyProperties =>
                    line.s \in {"readonly ", "readonly ?"}
            /\ options.optionalProperties =>
                    line.s \in {"?", "readonly ?"}

-----------------------------------------------------------------------------
(* ConverterUtils.detectTypeFromArray called on its own                    *)

\* the longest array classified
MaxValues == 4

\* the largest tuple size bound passed
MaxTupleBound == 3

\* the elements of the arrays classified: two primitive types, null,
\* undefined, a plain object and a nested array
DetectElems ==
    {VNumber("1"), VString("a"), VNull, VUndefined, VObject(1), VArray(<<>>)}

\* the bounds passed, {} for an argument left out
TupleBounds == {{}} \cup { {n} : n \in 0..MaxTupleBound }

InitDetect ==
    /\ pc = "detect"
    /\ \E es \in SeqsOf(DetectElems, 0, MaxValues) :
          jsonData = ValueInput(VArray(es))
    /\ \E mx \in TupleBounds, mn \in TupleBounds :
          options = [DefaultOptions EXCEPT !.arrayMaxTupleSize = mx,
                                           !.arrayMinTupleSize = mn]
    /\ heap = <<  <<Field(KeyA, VNumber("1"))>>  >>
    /\ strategy = "referenced"
    /\ exportType = "root"
    /\ interfaceName = NameR
    /\ parseResult = ParseError("unparsed")
    /\ interfaces = <<>>
    /\ visitedObjects = {}
    /\ stack = <<>>
    /\ ret = TNone
    /\ logged = ""
    /\ result = Pending
    /\ utilArg = <<>>
    /\ utilRet = <<>>
    /\ NoCommandLine
    /\ previous = Pending

\* the array, and the two bounds with their defaults
DetectValues == jsonData.val.elems

DetectMax == Coalesce(options.arrayMaxTupleSize, DefaultMaxTupleSize)

DetectMin == Coalesce(options.arrayMinTupleSize, DefaultMinTupleSize)

\* one call ConverterUtils.detectTypeFromArray(values, max, min)
DetectCall ==
    /\ pc = "detect"
    /\ ret' = detectTypeFromArray(DetectValues, DetectMax, DetectMin)
    /\ pc' = "done"
    /\ UNCHANGED <<inputs, naming, cli, previous, heap, parseResult, interfaces, visitedObjects,
                   stack, logged, result>>

NextDetect == DetectCall

DetectSpec == InitDetect /\ [][NextDetect]_vars

\* the call has returned
Detected == pc = "done"

\* the length of the array lies in [minTuple, maxTuple]
InBand == Len(DetectValues) >= DetectMin /\ Len(DetectValues) <= DetectMax

\* the kinds of element that are no object and no array
PrimitiveKinds == {"number", "string", "null", "undefined"}

\* every element has the kind k
AllOfKind(k) == \A i \in DOMAIN DetectValues : DetectValues[i].kind = k

-----------------------------------------------------------------------------
(* C12: one shared primitive tag wins over the tuple                       *)

-----------------------------------------------------------------------------
(* C13: the lower edge of the size band                                    *)

\* the runtime types (typeof) of the elements
RuntimeTypes == { TypeOf(DetectValues[i]) : i \in DOMAIN DetectValues }

\* every element is of a primitive type: none has the runtime type object
AllPrimitive == "object" \notin RuntimeTypes

-----------------------------------------------------------------------------
(* C14: the entries of a tuple                                             *)

\* the elements do not all have one and the same primitive tag
Heterogeneous == ~ \E k \in PrimitiveKinds : AllOfKind(k)

\* C14: an array inside the size band that is not homogeneous-primitive is
\* classified as a tuple with one entry per element, in the order of the
\* elements and with repeats kept, each entry being the tag of its element:
\* null, undefined, object, array, or the name of its primitive type; a nested
\* array is tagged array, not object.
C14_TupleMirrorsTags ==
    (Detected /\ DetectValues # <<>> /\ InBand /\ Heterogeneous) =>
        ret = TTuple([i \in DOMAIN DetectValues |->
                        TPrim(ElementTag(DetectValues[i]))])

-----------------------------------------------------------------------------
(* C15: arrays outside the size band                                       *)

\* the runtime types of the elements, the object-typed elements discarded
PrimitiveTypes == RuntimeTypes \ {"object"}

-----------------------------------------------------------------------------
(* C16: arrays of plain objects                                            *)

\* C16: every non-empty array whose elements are all plain objects is
\* classified as object[], be it a single element or an array whose length
\* lies inside the size band.
C16_ObjectsAreObjectArray ==
    (Detected /\ DetectValues # <<>> /\ AllOfKind("object")) =>
        ret = TArrayOf(TPrim("object"))

-----------------------------------------------------------------------------
(* ConverterUtils.suggestPropertyName called on its own                    *)

\* the longest key enumerated
MaxKeyLen == 3

\* the characters of the keys: a lower-case and an upper-case letter, a
\* digit, the two signs an identifier may hold, the space and the hyphen
KeyChars == {"a", "A", "1", "_", "$", " ", "-"}

\* the keys suggested for: every text over KeyChars, and the reserved words
PropertyKeys == SeqsOf(KeyChars, 0, MaxKeyLen) \cup TS_RESERVED_WORDS

\* no conversion is under way
NoConversion ==
    /\ jsonData = ValueInput(VUndefined)
    /\ options = DefaultOptions
    /\ heap = <<>>
    /\ strategy = "referenced"
    /\ exportType = "root"
    /\ interfaceName = NameR
    /\ parseResult = ParseError("unparsed")
    /\ interfaces = <<>>
    /\ visitedObjects = {}
    /\ stack = <<>>
    /\ ret = TNone
    /\ logged = ""
    /\ result = Pending

InitSuggest ==
    /\ pc = "suggest"
    /\ utilArg \in PropertyKeys
    /\ utilRet = <<>>
    /\ NoCommandLine
    /\ previous = Pending
    /\ NoConversion

\* one call ConverterUtils.suggestPropertyName(key)
SuggestCall ==
    /\ pc = "suggest"
    /\ utilRet' = suggestPropertyName(utilArg)
    /\ pc' = "done"
    /\ UNCHANGED <<inputs, cli, previous, utilArg, heap, parseResult, interfaces,
                   visitedObjects, stack, ret, logged, result>>

NextSuggest == SuggestCall

SuggestSpec == InitSuggest /\ [][NextSuggest]_vars

\* the call has returned
Suggested == pc = "done"

\* the text is a double-quoted string literal
IsQuoted(s) == Len(s) >= 2 /\ s[1] = "\"" /\ s[Len(s)] = "\""

\* the text matches ^[a-z][a-zA-Z0-9_$]*$
MatchesFieldPattern(s) ==
    /\ s # <<>>
    /\ s[1] \in Lower
    /\ \A i \in DOMAIN s : s[i] \in WordChar

-----------------------------------------------------------------------------
(* C17: which field names are quoted                                       *)

\* C17: a field name is emitted unquoted only if it is not empty and matches
\* ^[a-z][a-zA-Z0-9_$]*$; every other name (one that starts with an upper-case
\* letter or a digit, holds punctuation, is a reserved word or is the empty
\* text) is emitted as a double-quoted string literal.
C17_QuotedUnlessLowerIdentifier ==
    (Suggested /\ (~MatchesFieldPattern(utilArg)
                     \/ utilArg \in TS_RESERVED_WORDS)) =>
        IsQuoted(utilRet)

-----------------------------------------------------------------------------
(* C18: the text of the key is kept                                        *)

\* C18: for every key, the empty one, one made of spaces only and one with
\* spaces at its ends included, suggestPropertyName returns the key itself or
\* the key between double quotes with its characters unchanged: the text is
\* never trimmed, altered or replaced by a fallback name.
C18_KeyTextKept ==
    Suggested => utilRet \in {utilArg, Quoted(utilArg)}

-----------------------------------------------------------------------------
(* ConverterUtils.toInterfaceName called on its own, and on its own result *)

\* the longest name enumerated
MaxNameLen == 3

\* the characters of the names: a lower-case and an upper-case letter, a
\* digit, the underscore, the space and the hyphen
NameChars == {"a", "A", "1", "_", " ", "-"}

\* the names converted: every text over NameChars, the built-in type names
\* and the reserved words
InterfaceNames ==
    SeqsOf(NameChars, 0, MaxNameLen) \cup BUILT_IN_TYPES \cup TS_RESERVED_WORDS

InitName ==
    /\ pc = "name"
    /\ utilArg \in InterfaceNames
    /\ utilRet = <<>>
    /\ NoCommandLine
    /\ previous = Pending
    /\ NoConversion

\* ConverterUtils.toInterfaceName(name)
NameCall ==
    /\ pc = "name"
    /\ utilRet' = toInterfaceName(utilArg, RootObject)
    /\ pc' = "named"
    /\ UNCHANGED <<inputs, cli, previous, utilArg, heap, parseResult, interfaces,
                   visitedObjects, stack, ret, logged, result>>

\* ConverterUtils.toInterfaceName on the name the first call returned
NameAgain ==
    /\ pc = "named"
    /\ utilRet' = toInterfaceName(utilRet, RootObject)
    /\ pc' = "renamed"
    /\ UNCHANGED <<inputs, cli, previous, utilArg, heap, parseResult, interfaces,
                   visitedObjects, stack, ret, logged, result>>

NextName ==
    \/ NameCall
    \/ NameAgain

NameSpec == InitName /\ [][NextName]_vars

\* the first call has returned, the second has not been made
Named == pc = "named"

\* both calls have returned
Renamed == pc = "renamed"

-----------------------------------------------------------------------------
(* C19: toInterfaceName applied twice                                      *)

\* the name is alphanumeric and starts with an upper-case letter
IsPascalCase(s) ==
    /\ s # <<>>
    /\ s[1] \in Upper
    /\ \A i \in DOMAIN s : s[i] \in Lower \cup Upper \cup Digit

\* C19: for every alphanumeric name x that starts with an upper-case letter,
\* toInterfaceName(toInterfaceName(x)) equals toInterfaceName(x): the second
\* call returns what it was given.
C19_SecondCallChangesNothing ==
    [][(Named /\ IsPascalCase(utilArg)) => utilRet' = utilRet]_vars

\* Map was named MapType, and MapType was named MapType again
C19_MapTypeTwice ==
    /\ Renamed
    /\ utilArg = <<"M","a","p">>
    /\ utilRet = <<"M","a","p","T","y","p","e">>

-----------------------------------------------------------------------------
(* C20: snake_case names                                                   *)

\* two or more alphanumeric words separated by single underscores, the first
\* word starting with a lower-case letter
IsSnakeCase(s) ==
    /\ s # <<>>
    /\ \E i \in DOMAIN s : s[i] = "_"
    /\ s[1] \in Lower
    /\ s[Len(s)] # "_"
    /\ \A i \in DOMAIN s : s[i] \in Lower \cup Upper \cup Digit \cup {"_"}
    /\ \A i \in 1..(Len(s) - 1) : ~(s[i] = "_" /\ s[i + 1] = "_")

\* the words of s put together without the underscores, the first letter of
\* every word in upper case (atStart: the next character starts a word)
RECURSIVE WordsJoined(_, _)
WordsJoined(s, atStart) ==
    IF s = <<>> THEN <<>>
    ELSE IF Head(s) = "_" THEN WordsJoined(Tail(s), TRUE)
    ELSE <<IF atStart THEN ToUpperCase(Head(s)) ELSE Head(s)>>
            \o WordsJoined(Tail(s), FALSE)

\* C20: for a name made of alphanumeric words separated by underscores and
\* starting with a lower-case letter, toInterfaceName returns the words put
\* together with the first letter of every word in upper case and no
\* underscore left (user_profile gives UserProfile, a_b_c_d_e gives ABCDE).
C20_SnakeCaseBecomesPascalCase ==
    (Named /\ IsSnakeCase(utilArg)) => utilRet = WordsJoined(utilArg, TRUE)

-----------------------------------------------------------------------------
(* The command-line tool                                                   *)

\* the options yargs is given a default for: each of them is a property of
\* argv whether or not it stands on the command line
ArgvDefaults ==
    {"file", "text", "name", "flat", "export", "property-case", "strict",
     "output"}

\* null where a text is expected: the default of --text, stdin on a terminal
NullText == <<"(null)">>

\* the texts a file, --text or stdin may hold
CliTexts == { <<>>, <<" ">>, <<"x">>, <<"{">>, <<"{", "}">> }

\* what may stand on the command line: a file path or none, a text or none
\* (null), an output path or none, a name or none, an export letter, --flat
\* and --strict or neither
CommandLines ==
    [ file   : BOOLEAN,
      text   : {NullText} \cup CliTexts,
      output : BOOLEAN,
      name   : {<<>>, NamePerson, <<"i","f">>},
      export : {"a", "r", "n"},
      flat   : BOOLEAN,
      strict : BOOLEAN ]

\* yargs(...).default({...}).parse(): the options given, the defaults for
\* the others, and the names of the properties argv owns
YargsParse(given) ==
    [ own    |-> ArgvDefaults,
      file   |-> given.file,
      text   |-> given.text,
      output |-> given.output,
      name   |-> IF given.name = <<>> THEN RootObject ELSE given.name,
      export |-> given.export,
      flat   |-> given.flat,
      strict |-> given.strict ]

\* Object.hasOwn
ObjectHasOwn(obj, key) == key \in obj.own

toExportType(type) ==
    CASE type = "a" -> "all"
      [] type = "r" -> "root"
      [] OTHER      -> "none"

\* the file can be read or not, stdin is a terminal, a pipe that delivers
\* data or one that fails, the output file can be written or not
Environments ==
    [ readable : BOOLEAN,
      stdin    : {"tty", "data", "error"},
      data     : CliTexts,
      writable : BOOLEAN ]

InitCli ==
    /\ pc = "cli"
    /\ \E given \in CommandLines : argv = YargsParse(given)
    /\ env \in Environments
    /\ typescriptCode = ""
    /\ exitCode = 0
    /\ previous = Pending
    /\ utilArg = <<>>
    /\ utilRet = <<>>
    /\ NoConversion

\* a text is given and is not the empty one
Truthy(text) == text # NullText /\ text # <<>>

\* the try block of main: the input is read from the file, from --text or
\* from stdin; a read that throws sets the exit code and returns, no input
\* at all exits with 1
CliRead ==
    /\ pc = "cli"
    /\ LET failed == \/ (argv.file /\ ~env.readable)
                      \/ (~argv.file /\ ~Truthy(argv.text)
                                     /\ env.stdin = "error")
           read == IF argv.file THEN env.data
                   ELSE IF Truthy(argv.text) THEN argv.text
                   ELSE IF env.stdin = "tty" THEN NullText
                   ELSE env.data
       IN  IF failed \/ ~Truthy(read)
           THEN /\ exitCode' = 1
                /\ pc' = "exited"
                /\ jsonData' = jsonData
           ELSE /\ exitCode' = exitCode
                /\ pc' = "convert_cli"
                /\ jsonData' = TextInput(read)
    /\ UNCHANGED <<strategy, interfaceName, exportType, options, naming, previous, argv,
                   env, typescriptCode, heap, parseResult, interfaces,
                   visitedObjects, stack, ret, logged, result>>

\* the converter is chosen and convert is called on the text: an invalid
\* name is thrown and reaches the catch of main, a text that does not parse
\* makes convert return null, and null + "\n" is the text "null\n"
CliConvert ==
    /\ pc = "convert_cli"
    /\ strategy' = IF ObjectHasOwn(argv, "flat")
                   THEN "flattened" ELSE "referenced"
    /\ interfaceName' = argv.name
    /\ exportType' = toExportType(argv.export)
    /\ options' = [DefaultOptions EXCEPT
                       !.strict = ObjectHasOwn(argv, "strict")]
    /\ IF ~checkIdentifier(argv.name)
       THEN /\ result' = Thrown
            /\ exitCode' = 1
            /\ pc' = "exited"
            /\ UNCHANGED <<parseResult, logged, typescriptCode>>
       ELSE /\ parseResult' = jsonParse(jsonData)
            /\ logged' = parseResult'.error
            /\ typescriptCode' = IF parseResult'.error # ""
                                 THEN "null\n" ELSE "declarations\n"
            /\ pc' = "write"
            /\ UNCHANGED <<result, exitCode>>
    /\ UNCHANGED <<jsonData, naming, previous, argv, env, heap, interfaces,
                   visitedObjects, stack, ret>>

\* the text is written to the output file or printed
CliWrite ==
    /\ pc = "write"
    /\ exitCode' = IF argv.output /\ ~env.writable THEN 1 ELSE exitCode
    /\ pc' = "exited"
    /\ UNCHANGED <<inputs, naming, previous, argv, env, typescriptCode, heap,
                   parseResult, interfaces, visitedObjects, stack, ret, logged,
                   result>>

NextCli ==
    \/ CliRead
    \/ CliConvert
    \/ CliWrite

CliSpec == InitCli /\ [][NextCli]_vars

\* the process has ended
Exited == pc = "exited"

\* declarations were produced and, if asked for, written to the file
Delivered ==
    /\ typescriptCode = "declarations\n"
    /\ argv.output => env.writable

-----------------------------------------------------------------------------
(* C21: the exit code                                                      *)

\* C21: the command-line tool ends with exit code 1 whenever reading the
\* input, parsing or converting the JSON, or writing the output fails, and
\* with exit code 0 otherwise; a text that is not valid JSON ends the run
\* with exit code 1.
C21_ExitCodeTellsFailure ==
    Exited => (exitCode = 0 <=> Delivered)

-----------------------------------------------------------------------------
(* C22: the --flat flag                                                    *)

\* C22: the command-line tool uses the flattened converter if and only if
\* --flat is given; without the flag it uses the referenced converter.
C22_FlatFlagSelectsConverter ==
    pc = "write" => (strategy = "flattened" <=> argv.flat)

-----------------------------------------------------------------------------
(* C23: class instances under the referenced converter                     *)

\* the fields of the root record whose value is a class instance
InstanceFields ==
    { i \in DOMAIN heap[1] : heap[1][i].val.kind = "instance" }

\* the name the declaration of the instance under key is to have
InstanceName(key) == capitalize(capitalize(key) \o Instance)

\* the text has a declaration of that name whose lines are the fields of the
\* instance, and a property line typed with it
DeclaredAsInstance(field) ==
    /\ \E l \in ReturnedLines : l.sub[1] = TRef(InstanceName(field.key))
    /\ \E i \in DOMAIN result.decls :
          /\ result.decls[i].name = InstanceName(field.key)
          /\ Len(result.decls[i].body.sub) = Len(heap[field.val.ref])

\* C23: under the referenced converter a property whose value is a class
\* instance (its constructor is not Object) is typed with a new declaration
\* named by the capitalized key plus Instance, which lists the fields of the
\* instance.
C23_InstanceDeclared ==
    (ReturnedText /\ RecordRoot /\ strategy = "referenced")
        => \A i \in InstanceFields : DeclaredAsInstance(heap[1][i])

-----------------------------------------------------------------------------
(* C24: two records with one declaration name                              *)

\* C24: under the referenced converter, when two different records get the
\* same declaration name (a nested record named like an enclosing record or
\* like the root included), the table keeps one declaration of that name and
\* its body is the one registered first: no later registration replaces an
\* entry of the table.
C24_FirstRegistrationKept ==
    [][(pc = "walk" /\ strategy = "referenced")
          => \A i \in DOMAIN interfaces :
                /\ i \in DOMAIN interfaces'
                /\ interfaces'[i] = interfaces[i]]_vars

-----------------------------------------------------------------------------
(* C25: a record is entered once                                           *)

\* the frames that pass from the entry of generateInterface to its loop in
\* this step: the records whose fields start being walked
EnteredNow ==
    { k \in DOMAIN stack \cap DOMAIN stack' :
         /\ stack[k].phase = "enter"
         /\ stack'[k].phase = "loop"
         /\ HasOwnFields(stack[k].val) }

\* the frames that return in this step
ReturnedNow == DOMAIN stack \ DOMAIN stack'

\* C25: under the referenced converter, within one convert call, each record
\* is entered at most once: a record starts being walked only if it is not
\* in the visited set and is put there when it does, the set never loses a
\* record during the walk, and a call on a record that is in the set returns
\* with the table of declarations as it was.
C25_EnteredAtMostOnce ==
    [][(pc = "walk" /\ pc' = "walk" /\ strategy = "referenced")
          => /\ visitedObjects \subseteq visitedObjects'
             /\ \A k \in EnteredNow :
                   /\ stack[k].val.ref \notin visitedObjects
                   /\ stack[k].val.ref \in visitedObjects'
             /\ (Top.phase = "enter" /\ IsVisited(Top.val, visitedObjects))
                   => /\ ReturnedNow = {Len(stack)}
                      /\ interfaces' = interfaces]_vars

\* the record under the key a of the root is the root itself: the walk came
\* to the root a second time and the text has one declaration
C25_RootReachedAgain ==
    /\ ReturnedText
    /\ RecordRoot
    /\ strategy = "referenced"
    /\ \E i \in DOMAIN heap[1] : heap[1][i].val = VObject(1)
    /\ Len(result.decls) = 1

-----------------------------------------------------------------------------
(* C26: one call of convert after another                                  *)

\* this is the second call
SecondCall == previous # Pending

\* C26: successive calls of convert are independent: the walk of every call
\* starts with an empty table of declarations and an empty visited set, and
\* the second call on the same input returns what the first returned.
C26_CallsAreIndependent ==
    /\ (pc = "walk" /\ Len(stack) = 1 /\ Top.phase = "enter")
          => (interfaces = <<>> /\ visitedObjects = {})
    /\ (Done /\ SecondCall) => result = previous

\* the second call has returned the two declarations of a record and its
\* child, which the first call had left in the table
C26_SecondCallReturned ==
    /\ Done
    /\ SecondCall
    /\ strategy = "referenced"
    /\ result.kind = "returned"
    /\ Len(result.decls) = 2
    /\ Len(interfaces) = 2

-----------------------------------------------------------------------------
(* C27: a lower bound above the upper bound                                *)

\* both bounds are configured and the lower one is the greater
BoundsCrossed ==
    /\ options.arrayMinTupleSize # {}
    /\ options.arrayMaxTupleSize # {}
    /\ DetectMin > DetectMax

\* C27: when arrayMinTupleSize is greater than arrayMaxTupleSize, an array is
\* classified as if the default bounds, 2 and 10, had been configured.
C27_CrossedBoundsAreDefaults ==
    (Detected /\ BoundsCrossed)
        => ret = detectTypeFromArray(DetectValues, DefaultMaxTupleSize,
                                     DefaultMinTupleSize)

-----------------------------------------------------------------------------
(* C28: the declarations a text refers to                                  *)

\* the names of the declarations of the returned text
DeclaredNames == { result.decls[i].name : i \in DOMAIN result.decls }

\* C28: under the referenced converter, every declaration name the returned
\* text uses as the type of a property is declared in that text, also when a
\* record refers to itself and when one record is the value of several
\* properties.
C28_ReferencesAreDeclared ==
    (ReturnedText /\ strategy = "referenced")
        => \A i \in DOMAIN result.decls :
              TypeRefs(result.decls[i].body) \subseteq DeclaredNames

-----------------------------------------------------------------------------
(* C29: the visited set of the flattened converter                         *)

\* the records whose loop a call on the stack is in
RecordsBeingRendered ==
    { stack[k].val.ref :
        k \in { j \in DOMAIN stack : /\ stack[j].phase \in {"loop", "prop"}
                                     /\ HasOwnFields(stack[j].val) } }

\* the set holds the records on the recursion path and no other
VisitedIsPath ==
    (pc = "walk" /\ strategy = "flattened")
        => visitedObjects = RecordsBeingRendered

\* C29 as amended: under the flattened converter, at every point of the walk
\* the visited set holds exactly the records being rendered, and it is empty
\* when convert returns a text.
C29_VisitedIsPathEmptyAfterText ==
    /\ VisitedIsPath
    /\ (ReturnedText /\ strategy = "flattened") => visitedObjects = {}

\* C29: under the flattened converter, at every point of the walk the visited
\* set holds exactly the records being rendered, and it is empty when convert
\* returns.
C29_VisitedIsPathEmptyAtReturn ==
    /\ VisitedIsPath
    /\ (Done /\ strategy = "flattened") => visitedObjects = {}

\* the walk is inside a record inside a record: both are in the set
C29_TwoRecordsOnPath ==
    /\ pc = "walk"
    /\ strategy = "flattened"
    /\ visitedObjects = {1, 2}
    /\ Len(stack) >= 2

-----------------------------------------------------------------------------
(* C30: names toInterfaceName must not return                              *)

\* C30: for every input, with a fallback that is neither a built-in type name
\* nor a reserved word, toInterfaceName returns no built-in type name and no
\* TypeScript reserved word.
C30_NeverBuiltInOrReserved ==
    (Named /\ RootObject \notin BUILT_IN_TYPES \cup TS_RESERVED_WORDS)
        => utilRet \notin BUILT_IN_TYPES \cup TS_RESERVED_WORDS

====
